---------------------------- MODULE Spec2Model ----------------------------
(***************************************************************************)
(* LDIFtoCSV.py: the two passes over an LDIF entry stream.                 *)
(*                                                                         *)
(* Text is modelled as Python models it: a str is a sequence of code       *)
(* points (integers), concatenation is \o.  The output sink is the         *)
(* sequence of the write() calls made on it, each call one str.            *)
(***************************************************************************)
EXTENDS Integers, Sequences, FiniteSets

VARIABLES
    pc,                     \* position of main()
    stream,                 \* the entries the LDIF file holds, in file order
    argv,                   \* the command line: each option absent or given
    args,                   \* argparse namespace (after parse_args)
    pos,                    \* index of the next entry the running pass reads
    attributeDictionary,    \* the parser's attributeDictionary
    output,                 \* the sink main() selected
    written,                \* the write() calls made on the sink, in order
    closed,                 \* output.close() has run
    raised                  \* the exception that ended main(), or "none"

vars == <<pc, stream, argv, args, pos, attributeDictionary, output, written, closed, raised>>

---------------------------------------------------------------------------
(* Bounds of the model *)

MaxEntries == 2

---------------------------------------------------------------------------
(* Text *)

Quote == <<34>>
Comma == <<44>>
NewLine == <<10>>
Str_dn == <<100, 110>>
Str_cn == <<99, 110>>
Str_sn == <<115, 110>>
EmptyStr == <<>>
Str_out == <<111>>

\* ldif.py hands handle() a dn and a dict from attribute type to the list of
\* its values; the dn line is never a key of the dict, no list is empty and
\* no dict is empty (parse() skips a record without attributes).
AttributeNames == {Str_cn, Str_sn}
Values == <<(<<97>>), (<<10>>)>>
DistinguishedNames == {<<120>>}

\* The values at the indices S of Values, in the order of Values.
Pick(S) ==
    LET nth(k) == CHOOSE i \in S : Cardinality({j \in S : j < i}) = k - 1
    IN  [k \in 1..Cardinality(S) |-> Values[nth(k)]]

\* An attribute holds one or more of the values, each once.
ValueLists == {Pick(S) : S \in (SUBSET (1..Len(Values))) \ {{}}}

Entries ==
    {[dn |-> d, attrs |-> a] :
        d \in DistinguishedNames,
        a \in UNION {[S -> ValueLists] : S \in (SUBSET AttributeNames) \ {{}}}}

Streams == UNION {[1..n -> Entries] : n \in 0..MaxEntries}

---------------------------------------------------------------------------
(* Python values main() handles: a str, the file object sys.stdout or one   *)
(* returned by open(), and None.                                           *)

PyStr(s) == [type |-> "str", value |-> s]
PyFile(name) == [type |-> "TextIOWrapper", value |-> name]
None == [type |-> "NoneType", value |-> EmptyStr]
SysStdout == PyFile(<<60, 115, 116, 100, 111, 117, 116, 62>>)

\* The command lines: each option absent (<<>>) or given with one value
\* (-i is required and names the file that holds stream).
OutputOptions == {<<>>, <<EmptyStr>>, <<Str_out>>}
DelimiterOptions == {<<>>, <<Quote>>}
FieldsepOptions == {<<>>}
MaxcolsOptions == {<<>>, <<0>>, <<1>>}

CommandLines ==
    [output : OutputOptions, fieldsep : FieldsepOptions,
     delimiter : DelimiterOptions, maxcols : MaxcolsOptions]

\* argparse: the option's value when given, its default= otherwise.
ArgOrDefault(option, default) == IF option = <<>> THEN default ELSE option[1]

DefaultOutput == SysStdout
DefaultFieldsep == Comma
DefaultDelimiter == <<34, 34>>
DefaultMaxcols == 5

---------------------------------------------------------------------------
(* Python built-ins *)

Min(a, b) == IF a < b THEN a ELSE b

\* list.sort() on str: ascending code-point lexicographic order.
LexLess(a, b) ==
    \E i \in 1..(Len(a) + 1) :
        /\ \A j \in 1..(i - 1) : j <= Len(b) /\ a[j] = b[j]
        /\ \/ i > Len(a) /\ i <= Len(b)
           \/ i <= Len(a) /\ i <= Len(b) /\ a[i] < b[i]

RECURSIVE Sorted(_)
Sorted(S) ==
    IF S = {} THEN <<>>
    ELSE LET least == CHOOSE x \in S : \A y \in S \ {x} : LexLess(x, y)
         IN  <<least>> \o Sorted(S \ {least})

HexDigit(n) == IF n < 10 THEN 48 + n ELSE 87 + n

\* One character of repr(str) inside the quote q.
ReprChar(c, q) ==
    IF c = 92 THEN <<92, 92>>
    ELSE IF c = q THEN <<92, q>>
    ELSE IF c = 9 THEN <<92, 116>>
    ELSE IF c = 10 THEN <<92, 110>>
    ELSE IF c = 13 THEN <<92, 114>>
    ELSE IF c < 32 \/ (c >= 127 /\ c <= 160)
         THEN <<92, 120, HexDigit(c \div 16), HexDigit(c % 16)>>
    ELSE <<c>>

RECURSIVE ReprBody(_, _)
ReprBody(s, q) ==
    IF s = <<>> THEN <<>> ELSE ReprChar(Head(s), q) \o ReprBody(Tail(s), q)

\* repr(str): single quotes, double quotes when the text holds ' and no ".
repr(s) ==
    LET chars == {s[i] : i \in 1..Len(s)}
        q == IF 39 \in chars /\ 34 \notin chars THEN 34 ELSE 39
    IN  <<q>> \o ReprBody(s, q) \o <<q>>

\* open(file, "w"): a str names the file; a file object or None is a TypeError.
OpenRaises(file) == file.type # "str"

---------------------------------------------------------------------------
(* LDIFAttributeParser *)

EmptyDict == [n \in {} |-> 0]

\* handle() storing the entry's cardinality without comparing it.
AttributeHandle_Overwrite(d, dn, entry) ==
    [n \in DOMAIN d \cup {Str_dn} \cup DOMAIN entry |->
        IF n \in DOMAIN entry THEN Len(entry[n])
        ELSE IF n = Str_dn THEN 1 ELSE d[n]]

\* handle(dn, entry) on the dictionary d: the dictionary afterwards.
AttributeHandle(d, dn, entry) ==
    LET d1 == [n \in DOMAIN d \cup {Str_dn} |-> IF n = Str_dn THEN 1 ELSE d[n]]
    IN  [n \in DOMAIN d1 \cup DOMAIN entry |->
            IF n \notin DOMAIN entry THEN d1[n]
            ELSE IF n \notin DOMAIN d1 THEN Len(entry[n])
            ELSE IF Len(entry[n]) > d1[n] THEN Len(entry[n])
            ELSE d1[n]]

---------------------------------------------------------------------------
(* LDIFCSVParser *)

\* check_printable() without the test for control characters.
check_printable_NoLowerBound(message) ==
    \A i \in 1..Len(message) : ~(message[i] > 126)

check_printable(message) ==
    \A i \in 1..Len(message) : ~(message[i] > 126 \/ message[i] < 32)

\* The while loop "i = 0; while i < n: write(x); i = i + 1".
Times(n, x) == [i \in 1..n |-> x]

Cell(content, delim, sep) == delim \o content \o delim \o sep

\* numberOfTimesToPrint of handle() without the cap.
HandleTimesToPrint_NoCap(d, attributeName, maxcols) == d[attributeName]

\* numberOfTimesToPrint of handle().
HandleTimesToPrint(d, attributeName, maxcols) ==
    IF d[attributeName] > maxcols THEN maxcols ELSE d[attributeName]

\* handle()'s loop body without the padding of a present attribute.
HandleAttribute_NoPad(d, dn, entry, attributeName, sep, delim, maxcols) ==
    LET numberOfTimesToPrint == HandleTimesToPrint(d, attributeName, maxcols)
    IN  IF attributeName \in DOMAIN entry
        THEN [i \in 1..Min(numberOfTimesToPrint, Len(entry[attributeName])) |->
                IF check_printable(entry[attributeName][i])
                THEN Cell(entry[attributeName][i], delim, sep)
                ELSE Cell(repr(entry[attributeName][i]), delim, sep)]
        ELSE IF attributeName = Str_dn
        THEN <<Cell(dn, delim, sep)>>
        ELSE Times(numberOfTimesToPrint, Cell(EmptyStr, delim, sep))

\* handle()'s loop body writing every value of a present attribute.
HandleAttribute_AllValues(d, dn, entry, attributeName, sep, delim, maxcols) ==
    LET numberOfTimesToPrint == HandleTimesToPrint(d, attributeName, maxcols)
    IN  IF attributeName \in DOMAIN entry
        THEN [i \in 1..Len(entry[attributeName]) |->
                IF check_printable(entry[attributeName][i])
                THEN Cell(entry[attributeName][i], delim, sep)
                ELSE Cell(repr(entry[attributeName][i]), delim, sep)]
        ELSE IF attributeName = Str_dn
        THEN <<Cell(dn, delim, sep)>>
        ELSE Times(numberOfTimesToPrint, Cell(EmptyStr, delim, sep))

\* The writes of one pass of handle()'s loop body, for attributeName.
HandleAttribute(d, dn, entry, attributeName, sep, delim, maxcols) ==
    LET numberOfTimesToPrint == HandleTimesToPrint(d, attributeName, maxcols)
    IN  IF attributeName \in DOMAIN entry
        THEN [i \in 1..numberOfTimesToPrint |->
                IF i <= Len(entry[attributeName])
                THEN IF check_printable(entry[attributeName][i])
                     THEN Cell(entry[attributeName][i], delim, sep)
                     ELSE Cell(repr(entry[attributeName][i]), delim, sep)
                ELSE Cell(EmptyStr, delim, sep)]
        ELSE IF attributeName = Str_dn
        THEN <<Cell(dn, delim, sep)>>
        ELSE Times(numberOfTimesToPrint, Cell(EmptyStr, delim, sep))

RECURSIVE HandleLoop(_, _, _, _, _, _, _)
HandleLoop(names, d, dn, entry, sep, delim, maxcols) ==
    IF names = <<>> THEN <<>>
    ELSE HandleAttribute(d, dn, entry, Head(names), sep, delim, maxcols)
         \o HandleLoop(Tail(names), d, dn, entry, sep, delim, maxcols)

\* handle(dn, entry): the writes it makes, the newline last.
CSVHandle(d, dn, entry, sep, delim, maxcols) ==
    HandleLoop(Sorted(DOMAIN d), d, dn, entry, sep, delim, maxcols)
    \o <<NewLine>>

---------------------------------------------------------------------------
(* generateCSV: the header *)

\* numberOfTimesToPrint of generateCSV().
HeaderTimesToPrint(d, columnName, maxcols) ==
    IF d[columnName] > maxcols THEN maxcols ELSE d[columnName]

RECURSIVE HeaderLoop(_, _, _, _, _)
HeaderLoop(headerValues, d, sep, delim, maxcols) ==
    IF headerValues = <<>> THEN <<>>
    ELSE Times(HeaderTimesToPrint(d, Head(headerValues), maxcols),
               Cell(Head(headerValues), delim, sep))
         \o HeaderLoop(Tail(headerValues), d, sep, delim, maxcols)

Header(d, sep, delim, maxcols) ==
    HeaderLoop(Sorted(DOMAIN d), d, sep, delim, maxcols) \o <<NewLine>>

---------------------------------------------------------------------------
(* main() *)

Init ==
    /\ pc = "parse_args"
    /\ stream \in Streams
    /\ argv \in CommandLines
    /\ args = [output |-> PyStr(EmptyStr), fieldsep |-> Comma,
               delimiter |-> Quote, maxcols |-> DefaultMaxcols]
    /\ pos = 1
    /\ attributeDictionary = EmptyDict
    /\ output = None
    /\ written = <<>>
    /\ closed = FALSE
    /\ raised = "none"

\* parser.parse_args() and the copies of its namespace.
ParseArgs ==
    /\ pc = "parse_args"
    /\ args' = [output |-> IF argv.output = <<>> THEN DefaultOutput
                            ELSE PyStr(argv.output[1]),
                fieldsep |-> ArgOrDefault(argv.fieldsep, DefaultFieldsep),
                delimiter |-> ArgOrDefault(argv.delimiter, DefaultDelimiter),
                maxcols |-> ArgOrDefault(argv.maxcols, DefaultMaxcols)]
    /\ pc' = "discovery"
    /\ pos' = 1
    /\ attributeDictionary' = EmptyDict
    /\ UNCHANGED <<stream, argv, output, written, closed, raised>>

\* parseLDIFAttributes: parse() hands the next entry to LDIFAttributeParser.handle.
DiscoveryHandle ==
    /\ pc = "discovery"
    /\ pos <= Len(stream)
    /\ attributeDictionary' =
          AttributeHandle(attributeDictionary, stream[pos].dn, stream[pos].attrs)
    /\ pos' = pos + 1
    /\ UNCHANGED <<pc, stream, argv, args, output, written, closed, raised>>

\* parse() has read the whole file: parseLDIFAttributes returns the dictionary.
DiscoveryReturn ==
    /\ pc = "discovery"
    /\ pos > Len(stream)
    /\ pc' = "select_sink"
    /\ UNCHANGED <<stream, argv, args, pos, attributeDictionary, output, written,
                   closed, raised>>

\* main() selects the sink.
SelectSink ==
    /\ pc = "select_sink"
    /\ IF args.output # PyStr(EmptyStr)
       THEN IF OpenRaises(args.output)
            THEN /\ raised' = "TypeError"
                 /\ pc' = "aborted"
                 /\ output' = SysStdout
            ELSE /\ output' = PyFile(args.output.value)
                 /\ pc' = "header"
                 /\ UNCHANGED raised
       ELSE /\ output' = SysStdout
            /\ pc' = "header"
            /\ UNCHANGED raised
    /\ UNCHANGED <<stream, argv, args, pos, attributeDictionary, written, closed>>

\* generateCSV up to CSVParser.parse(): the header line.
GenerateHeader ==
    /\ pc = "header"
    /\ written' = written \o
          Header(attributeDictionary, args.fieldsep, args.delimiter, args.maxcols)
    /\ pos' = 1
    /\ pc' = "emission"
    /\ UNCHANGED <<stream, argv, args, attributeDictionary, output, closed, raised>>

\* CSVParser.parse() hands the next entry to LDIFCSVParser.handle.
EmissionHandle ==
    /\ pc = "emission"
    /\ pos <= Len(stream)
    /\ written' = written \o
          CSVHandle(attributeDictionary, stream[pos].dn, stream[pos].attrs,
                    args.fieldsep, args.delimiter, args.maxcols)
    /\ pos' = pos + 1
    /\ UNCHANGED <<pc, stream, argv, args, attributeDictionary, output, closed, raised>>

\* generateCSV after CSVParser.parse(): the newline that ends the file.
GenerateTrailer ==
    /\ pc = "emission"
    /\ pos > Len(stream)
    /\ written' = written \o <<NewLine>>
    /\ pc' = "close"
    /\ UNCHANGED <<stream, argv, args, pos, attributeDictionary, output, closed, raised>>

\* output.close()
Close ==
    /\ pc = "close"
    /\ closed' = TRUE
    /\ pc' = "done"
    /\ UNCHANGED <<stream, argv, args, pos, attributeDictionary, output, written, raised>>

Next ==
    \/ ParseArgs
    \/ DiscoveryHandle
    \/ DiscoveryReturn
    \/ SelectSink
    \/ GenerateHeader
    \/ EmissionHandle
    \/ GenerateTrailer
    \/ Close

Spec == Init /\ [][Next]_vars

---------------------------------------------------------------------------
(* The file between the two passes.  parseLDIFAttributes closes it and     *)
(* generateCSV opens it again by name, so another process may have         *)
(* rewritten it in between.                                                *)

MaxDriftEntries == 1

DriftStreams == UNION {[1..n -> Entries] : n \in 0..MaxDriftEntries}

InitDrift ==
    /\ pc = "parse_args"
    /\ stream \in DriftStreams
    /\ argv \in CommandLines
    /\ args = [output |-> PyStr(EmptyStr), fieldsep |-> Comma,
               delimiter |-> Quote, maxcols |-> DefaultMaxcols]
    /\ pos = 1
    /\ attributeDictionary = EmptyDict
    /\ output = None
    /\ written = <<>>
    /\ closed = FALSE
    /\ raised = "none"

\* The file is rewritten once, while no pass reads it (pos = 0 from then on,
\* until generateCSV starts reading).
Modify ==
    /\ pc = "header"
    /\ pos # 0
    /\ stream' \in DriftStreams \ {stream}
    /\ pos' = 0
    /\ UNCHANGED <<pc, argv, args, attributeDictionary, output, written,
                   closed, raised>>

NextDrift ==
    \/ ParseArgs
    \/ DiscoveryHandle
    \/ DiscoveryReturn
    \/ SelectSink
    \/ Modify
    \/ GenerateHeader
    \/ EmissionHandle
    \/ GenerateTrailer
    \/ Close

SpecDrift == InitDrift /\ [][NextDrift]_vars

---------------------------------------------------------------------------
(* Reading the sink: lines, cells and the column plan *)

MaxOf(S) == CHOOSE x \in S : \A y \in S : y <= x

\* The lines of the sink: the cell writes before each write("\n"), in
\* order (cur holds the cells of the line being read).
RECURSIVE SplitLines(_, _, _)
SplitLines(w, cur, lines) ==
    IF w = <<>> THEN lines
    ELSE IF Head(w) = NewLine
         THEN SplitLines(Tail(w), <<>>, Append(lines, cur))
         ELSE SplitLines(Tail(w), Append(cur, Head(w)), lines)

Lines == SplitLines(written, <<>>, <<>>)

RECURSIVE Flatten(_)
Flatten(w) == IF w = <<>> THEN <<>> ELSE Head(w) \o Flatten(Tail(w))

\* The column plan of section 3: min(cardinality, maximumColumns) per name.
PlanWidth(A) == Min(attributeDictionary[A], args.maxcols)

RECURSIVE PlanSum(_)
PlanSum(S) ==
    IF S = {} THEN 0
    ELSE LET A == CHOOSE x \in S : TRUE IN PlanWidth(A) + PlanSum(S \ {A})

Offset(A) == PlanSum({B \in DOMAIN attributeDictionary : LexLess(B, A)})

DiscoveryReturned == pc \notin {"parse_args", "discovery"}

HeaderWritten == pc \in {"emission", "close", "done"}

\* The entries whose row the Emission pass has written.
RowsWritten == IF HeaderWritten THEN 1..(pos - 1) ELSE {}

\* The entry whose row LDIFCSVParser.handle has just written: its row is
\* the last line of the sink.  Every row is the last line once, and no
\* action changes a write already made.
JustWritten == IF pc = "emission" /\ pos > 1 THEN {pos - 1} ELSE {}

Printable(v) == \A j \in 1..Len(v) : v[j] >= 32 /\ v[j] <= 126

\* The cell a value is written as: literal when printable, escaped otherwise.
WrittenCell(v) ==
    Cell(IF Printable(v) THEN v ELSE repr(v), args.delimiter, args.fieldsep)

EmptyCell == Cell(EmptyStr, args.delimiter, args.fieldsep)

LabelCell(A) == Cell(A, args.delimiter, args.fieldsep)

\* The k cells of a row from the offset of A on (a missing cell reads <<-1>>).
Segment(row, A, k) ==
    LET off == Offset(A)
    IN  [j \in 1..k |-> IF off + j <= Len(row) THEN row[off + j] ELSE <<-1>>]

SeenNames == UNION {DOMAIN stream[i].attrs : i \in 1..Len(stream)}

---------------------------------------------------------------------------
(* C1: column count invariant.  The header line and every data row hold   *)
(* the same number of cells, the sum over the map's names of               *)
(* min(cardinality, maximumColumns), for every stream and every            *)
(* configuration the program accepts.                                      *)
C1_ColumnCountInvariant ==
    HeaderWritten =>
        LET lines == Lines
            columns == PlanSum(DOMAIN attributeDictionary)
        IN  /\ Len(lines[1]) = columns
            /\ \A i \in RowsWritten : Len(lines[i + 1]) = columns

(* C2: cardinality correctness.  When the Discovery pass has returned,     *)
(* every name that is a key of some entry maps to the maximum number of    *)
(* values it holds in one entry, so no entry holds more values than the    *)
(* map says, and a name no entry holds is not in the map (dn apart).       *)
C2_CardinalityCorrect ==
    DiscoveryReturned =>
        /\ \A A \in SeenNames :
              /\ A \in DOMAIN attributeDictionary
              /\ attributeDictionary[A] =
                    MaxOf({Len(stream[i].attrs[A]) :
                             i \in {n \in 1..Len(stream) : A \in DOMAIN stream[n].attrs}})
        /\ \A i \in 1..Len(stream) : \A A \in DOMAIN stream[i].attrs :
              Len(stream[i].attrs[A]) <= attributeDictionary[A]
        /\ DOMAIN attributeDictionary \subseteq SeenNames \cup {Str_dn}

\* Two entries, the first with more values of cn than the last, and no sn.
C2_Witness ==
    /\ DiscoveryReturned
    /\ Len(stream) = 2
    /\ Str_cn \in DOMAIN stream[1].attrs /\ Str_cn \in DOMAIN stream[2].attrs
    /\ Len(stream[1].attrs[Str_cn]) = 2 /\ Len(stream[2].attrs[Str_cn]) = 1
    /\ Str_sn \notin SeenNames
    /\ attributeDictionary[Str_cn] = 2

(* C3: the map the Discovery pass returns holds "dn" with value 1 for      *)
(* every stream, the stream of no entries included.                        *)
C3_DnAlwaysOne ==
    DiscoveryReturned =>
        /\ Str_dn \in DOMAIN attributeDictionary
        /\ attributeDictionary[Str_dn] = 1

---------------------------------------------------------------------------
\* The cells row i may hold outside the cells of attribute A: the dn, an
\* empty cell, or a value of another attribute of the entry.
CellsNotOf(i, A) ==
    {EmptyCell, Cell(stream[i].dn, args.delimiter, args.fieldsep)} \cup
    UNION {{WrittenCell(stream[i].attrs[B][j]) : j \in 1..Len(stream[i].attrs[B])} :
             B \in DOMAIN stream[i].attrs \ {A}}

C5_Padding ==
    LET lines == Lines
    IN  \A i \in JustWritten :
          \A A \in DOMAIN attributeDictionary :
            LET k == PlanWidth(A)
                row == lines[i + 1]
            IN  IF A \in DOMAIN stream[i].attrs
                THEN Len(stream[i].attrs[A]) < k =>
                        Segment(row, A, k) =
                            [j \in 1..k |->
                                IF j <= Len(stream[i].attrs[A])
                                THEN WrittenCell(stream[i].attrs[A][j])
                                ELSE EmptyCell]
                ELSE A # Str_dn =>
                        Segment(row, A, k) = [j \in 1..k |-> EmptyCell]

\* A row was written for an entry with one value of an attribute that has
\* two columns, and that lacks another attribute of the map.
C5_Witness ==
    \E i \in JustWritten :
        /\ Str_sn \in DOMAIN stream[i].attrs
        /\ Len(stream[i].attrs[Str_sn]) = 1
        /\ PlanWidth(Str_sn) = 2
        /\ Str_cn \in DOMAIN attributeDictionary \ DOMAIN stream[i].attrs
        /\ PlanWidth(Str_cn) = 2

(* C6: header/row alignment.  With offset(A) the sum of the plan widths    *)
(* of the names sorted before A, the header carries label A in columns     *)
(* offset(A)+1 .. offset(A)+k_A, every row carries the j-th value of A in  *)
(* column offset(A)+j, and the entry's distinguished name is in the        *)
(* column whose header label is "dn"; for every stream and configuration.  *)
C6_HeaderRowAlignment ==
    HeaderWritten =>
        LET lines == Lines
            header == lines[1]
        IN  /\ \A A \in DOMAIN attributeDictionary :
                  /\ Len(header) >= Offset(A) + PlanWidth(A)
                  /\ \A j \in 1..PlanWidth(A) : header[Offset(A) + j] = LabelCell(A)
            /\ \A i \in RowsWritten :
                  LET row == lines[i + 1]
                  IN  /\ \A A \in DOMAIN stream[i].attrs \cap DOMAIN attributeDictionary :
                            \A j \in 1..Min(PlanWidth(A), Len(stream[i].attrs[A])) :
                                /\ Offset(A) + j <= Len(row)
                                /\ row[Offset(A) + j] = WrittenCell(stream[i].attrs[A][j])
                      /\ \E c \in 1..Len(header) :
                            /\ header[c] = LabelCell(Str_dn)
                            /\ c <= Len(row)
                            /\ row[c] = Cell(stream[i].dn, args.delimiter, args.fieldsep)

(* C7: output ordering.  Nothing is written before the header; after the   *)
(* header line comes one newline-terminated row per entry in stream order, *)
(* then one more newline and nothing else; the sink then holds N+2 line    *)
(* terminators, and it is closed only after that last newline.             *)
C7_OutputOrdering ==
    LET N == Len(stream)
        chars == Flatten(written)
        lines == Lines
    IN  /\ ~HeaderWritten => written = <<>>
        /\ pc = "emission" =>
              /\ Len(lines) = pos
              /\ written[Len(written)] = NewLine
        /\ pc \in {"close", "done"} =>
              /\ Len(lines) = N + 2
              /\ written[Len(written)] = NewLine
              /\ lines[N + 2] = <<>>
              /\ Cardinality({p \in 1..Len(chars) : chars[p] = 10}) = N + 2
        /\ pc = "done" =>
              /\ \A c \in 1..Len(lines[1]) :
                    lines[1][c] \in {LabelCell(A) : A \in DOMAIN attributeDictionary}
              /\ \A i \in 1..N :
                    LET row == lines[i + 1]
                    IN  /\ \A c \in 1..Len(row) : row[c] \in CellsNotOf(i, EmptyStr)
                        /\ \E c \in 1..Len(row) :
                              row[c] = Cell(stream[i].dn, args.delimiter, args.fieldsep)
                        /\ \A A \in DOMAIN stream[i].attrs :
                              PlanWidth(A) >= 1 =>
                                  row[Offset(A) + 1] = WrittenCell(stream[i].attrs[A][1])
        /\ closed => pc = "done"
        /\ pc = "done" => closed

\* The run ended on a stream of two different entries, one of which holds
\* a value with a line feed in it.
C7_Witness ==
    /\ pc = "done"
    /\ closed
    /\ Len(stream) = 2
    /\ stream[1] # stream[2]
    /\ Str_cn \in DOMAIN stream[1].attrs
    /\ stream[1].attrs[Str_cn][1] = NewLine
    /\ args.maxcols >= 1

C9_DefaultDelimiterIsQuote ==
    (argv.delimiter = <<>> /\ pc # "parse_args") =>
        /\ args.delimiter = Quote
        /\ \A p \in 1..Len(written) :
              written[p] # NewLine =>
                  \E n \in 0..Len(written[p]) :
                      /\ n + 2 + Len(args.fieldsep) = Len(written[p])
                      /\ written[p] =
                            Cell(SubSeq(written[p], 2, n + 1), Quote, args.fieldsep)
                      /\ \A q \in 2..(n + 1) : written[p][q] # 34

---------------------------------------------------------------------------
\* The cells a row may hold when the map is d: the dn, an empty cell, or a
\* value of an attribute of the entry that is a name of the map.
CellsOfMap(i) ==
    {EmptyCell, Cell(stream[i].dn, args.delimiter, args.fieldsep)} \cup
    UNION {{WrittenCell(stream[i].attrs[B][j]) : j \in 1..Len(stream[i].attrs[B])} :
             B \in DOMAIN stream[i].attrs \cap DOMAIN attributeDictionary}

C10_RowsFitTheHeader ==
    (/\ HeaderWritten
     /\ Str_dn \in DOMAIN attributeDictionary
     /\ attributeDictionary[Str_dn] = 1
     /\ args.maxcols >= 1) =>
        LET lines == Lines
            columns == PlanSum(DOMAIN attributeDictionary)
        IN  /\ Len(lines[1]) = columns
            /\ \A i \in JustWritten :
                  /\ Len(lines[i + 1]) = columns
                  /\ \A c \in 1..Len(lines[i + 1]) : lines[i + 1][c] \in CellsOfMap(i)

(* C10: schema drift.  LDIFCSVParser.handle never changes the map, and     *)
(* with dn = 1 in the map and maximumColumns >= 1 the row of any entry     *)
(* (one the Discovery pass never saw, with names that are not in the map   *)
(* or with more values than the map records) has exactly the header's      *)
(* number of cells, none of them for a name that is not in the map.        *)
C10_SchemaDrift ==
    /\ []C10_RowsFitTheHeader
    /\ [][pc = "emission" => attributeDictionary' = attributeDictionary]_vars

\* A row was written for an entry that the Discovery pass did not see: it
\* holds a name that is not in the map and more values than the map records.
C10_Witness ==
    /\ args.maxcols >= 2
    /\ Str_dn \in DOMAIN attributeDictionary
    /\ \E i \in JustWritten :
          /\ Str_sn \in DOMAIN stream[i].attrs
          /\ Str_sn \notin DOMAIN attributeDictionary
          /\ Str_cn \in DOMAIN stream[i].attrs
          /\ Str_cn \in DOMAIN attributeDictionary
          /\ Len(stream[i].attrs[Str_cn]) > attributeDictionary[Str_cn]

===========================================================================
